---- MODULE Spec2Model ----
(***************************************************************************)
(* Audiobookshelf integration: the API client (credential, login, request, *)
(* typed accessors) and the media source (browse tree, resolve).           *)
(*                                                                         *)
(* Strings that the code takes apart or puts together (identifiers, ids,   *)
(* URLs) are sequences of atoms: one-character atoms for the characters    *)
(* the code looks at ("/" and ":"), and whole-word atoms for literals of   *)
(* the code that contain neither ("audiobook", "?token=").  Python's None  *)
(* for an optional str is the atom None; an absent identifier is the empty *)
(* sequence, which is what `item.identifier or ""` makes of it.            *)
(***************************************************************************)
EXTENDS Integers, Sequences, FiniteSets, TLC

VARIABLES
    cred,      \* the client's Credential: username, password, token
    pending,   \* per caller: the call suspended at `await session.request`
    last       \* the call that completed last, with its response and outcome

vars == <<cred, pending, last>>

----------------------------------------------------------------------------
(* Bounds and input alphabets *)

MaxItems == 2

None == "<None>"

Usernames == {None, "", "user"}
Passwords == {None, "", "pw"}
InitTokens == {None, "", "t0"}
ServerTokens == {"", "t1", "t2"}

\* ids the server hands out; one holds the separator ':', one the separator '/'
Ids == {<<"a">>, <<"a", ":", "b">>, <<"a", "/", "b">>}

Categories == {"library", "item", "podcast", "audiobook", "bogus"}

Identifiers ==
    {<<>>, <<"audiobook">>, <<"library", "/">>}
        \cup {<<c, "/">> \o i : c \in Categories, i \in Ids}

SeqsUpTo(S, n) == UNION {[1..k -> S] : k \in 0..n}

----------------------------------------------------------------------------
(* Python helpers *)

\* truthiness of an optional str
Truthy(v) == v # None /\ v # ""

\* f"{v}" of an optional str
Str(v) == IF v = None THEN "None" ELSE v

\* index of the first occurrence of sep in s, 0 when there is none
IndexOf(s, sep) ==
    IF \E i \in 1..Len(s) : s[i] = sep
    THEN CHOOSE i \in 1..Len(s) : s[i] = sep /\ \A j \in 1..(i - 1) : s[j] # sep
    ELSE 0

\* str.partition(sep): (head, tail) around the first sep; (s, "") without one
Partition(s, sep) ==
    LET i == IndexOf(s, sep) IN
    IF i = 0 THEN [head |-> s, tail |-> <<>>]
    ELSE [head |-> SubSeq(s, 1, i - 1), tail |-> SubSeq(s, i + 1, Len(s))]

----------------------------------------------------------------------------
(* Exceptions *)

AudiobookshelfError == "AudiobookshelfError"
AudiobookshelfConnectionError == "AudiobookshelfConnectionError"
AudiobookshelfParseError == "AudiobookshelfParseError"
AudiobookshelfFailedResponseError == "AudiobookshelfFailedResponseError"
Unresolvable == "Unresolvable"

\* isinstance(e, AudiobookshelfError)
IsAudiobookshelfError(e) ==
    e \in {AudiobookshelfError, AudiobookshelfConnectionError,
           AudiobookshelfParseError, AudiobookshelfFailedResponseError}

Ret(v) == [kind |-> "return", val |-> v]
Raise(e) == [kind |-> "raise", exc |-> e]

----------------------------------------------------------------------------
(* Credential *)

has_token(c) == c.token # None

is_invalid(c) == ~(Truthy(c.username) \/ Truthy(c.password)) /\ ~Truthy(c.token)

----------------------------------------------------------------------------
(* JSON bodies: a dict is the function from the keys it holds, so a key   *)
(* it lacks is no field of the record; {} is the empty function.          *)

EmptyDict == <<>>

Has(d, key) == key \in DOMAIN d

Users == {EmptyDict} \cup {[token |-> t] : t \in ServerTokens}

LoginBodies == {EmptyDict} \cup {[user |-> u] : u \in Users}

LibraryEntries ==
    {[id |-> i, mediaType |-> "book", name |-> "Shelf", provider |-> "audible"] :
        i \in Ids}

LibrariesBodies ==
    {EmptyDict} \cup {[libraries |-> l] : l \in SeqsUpTo(LibraryEntries, MaxItems)}

MediaTypes == {"book", "podcast", "video"}

ItemEntries ==
    {[id |-> i, mediaType |-> m, media |-> [metadata |-> [title |-> "Title"]]] :
        i \in Ids, m \in MediaTypes}

ItemsBodies ==
    {EmptyDict} \cup {[results |-> l] : l \in SeqsUpTo(ItemEntries, MaxItems)}

EpisodeEntries ==
    {[id |-> e, libraryItemId |-> i, episode |-> "1", title |-> "Episode"] :
        e \in Ids, i \in Ids}

Medias ==
    {EmptyDict} \cup {[episodes |-> l] : l \in SeqsUpTo(EpisodeEntries, MaxItems)}

EpisodesBodies == {EmptyDict} \cup {[media |-> m] : m \in Medias}

Tracks ==
    {[contentUrl |-> <<"/stream/x.mp3">>, mimeType |-> "audio/mpeg"],
     [contentUrl |-> <<"/hls/y.m3u8">>, mimeType |-> "application/vnd.apple.mpegurl"],
     [contentUrl |-> <<"/stream/x.mp3">>]}

Metas == {EmptyDict, [title |-> "Title"]}

TrackLists == SeqsUpTo(Tracks, MaxItems)

PlayBodies ==
    {EmptyDict}
    \cup {[id |-> <<"a">>]}
    \cup {[mediaMetadata |-> mm] : mm \in Metas}
    \cup {[audioTracks |-> ts] : ts \in TrackLists}
    \cup {[id |-> <<"a">>, mediaMetadata |-> mm] : mm \in Metas}
    \cup {[id |-> <<"a">>, audioTracks |-> ts] : ts \in TrackLists}
    \cup {[mediaMetadata |-> mm, audioTracks |-> ts] : mm \in Metas, ts \in TrackLists}
    \cup {[id |-> <<"a">>, mediaMetadata |-> mm, audioTracks |-> ts] :
            mm \in Metas, ts \in TrackLists}

BodiesFor(fn) ==
    CASE fn = "login" -> LoginBodies
      [] fn = "libraries" -> LibrariesBodies
      [] fn = "library" -> ItemsBodies
      [] fn = "get_podcast_episodes" -> EpisodesBodies
      [] OTHER -> PlayBodies

(* What the transport hands back: the call times out, fails below HTTP, or *)
(* returns a status with a JSON body.                                      *)
Statuses == {200, 299, 304, 404, 500}

ResponsesFor(fn) ==
    {[kind |-> k] : k \in {"timeout", "client_error"}}
    \cup {[kind |-> "status", status |-> s, body |-> EmptyDict] : s \in Statuses \ {200}}
    \cup {[kind |-> "status", status |-> 200, body |-> b] : b \in BodiesFor(fn)}

----------------------------------------------------------------------------
(* AudiobookShelfClient *)

HOST == "http://abs.local"

cover_url_for_item(c, item_id) ==
    <<HOST, "/api/items/">> \o item_id
        \o <<"/cover?raw=0&format=jpeg&token=", Str(c.token)>>

authenticated_playable_url(c, url) == <<HOST>> \o url \o <<"?token=", Str(c.token)>>

(* `self.login()` in request() is called without await: the call builds a  *)
(* coroutine object and runs none of login's body.                         *)
UnawaitedLogin == [coroutine |-> "login", ran |-> FALSE]

\* bool(x) of the value `self.login()` evaluates to: an object without
\* __bool__ or __len__ is true
ObjectTruthy(x) == TRUE

(* request(), up to the await: "raise" when it gives up before any HTTP    *)
(* call, else the Authorization header it sends.                           *)
RequestHeaders(c) ==
    IF ~has_token(c) /\ ~ObjectTruthy(UnawaitedLogin)
    THEN [go |-> "raise", auth |-> <<>>]
    ELSE [go |-> "send", auth |-> <<"Bearer ", Str(c.token)>>]

\* aiohttp's ClientResponse.raise_for_status(): raises for status >= 400
RaiseForStatus(status) == status >= 400

(* request(), from the transport's answer on *)
RequestOutcome(resp) ==
    CASE resp.kind = "timeout" -> Raise(AudiobookshelfConnectionError)
      [] resp.kind = "client_error" -> Raise(AudiobookshelfConnectionError)
      [] OTHER ->
            IF resp.status >= 200 /\ resp.status < 300 THEN Ret(resp.body)
            ELSE IF RaiseForStatus(resp.status)
                 THEN Raise(AudiobookshelfFailedResponseError)
                 ELSE Ret(EmptyDict)

\* login() without its early return on a token that is already there
LoginGuardNoTokenCheck(c) == IF is_invalid(c) THEN "false" ELSE "request"

(* login(), before the await: what it does without a request *)
LoginGuard(c) ==
    IF has_token(c) THEN "true"
    ELSE IF is_invalid(c) THEN "false"
    ELSE "request"

\* login() storing whatever it read, an absent or empty token too
LoginStoreAlways(c, token) == [c EXCEPT !.token = token]

(* login(), after the await: the outcome and the credential it leaves *)
LoginStore(c, token) ==
    IF Truthy(token) THEN [c EXCEPT !.token = token] ELSE c

LoginResult(c, reqOut) ==
    IF reqOut.kind = "raise" THEN [out |-> reqOut, cred |-> c]
    ELSE IF ~Has(reqOut.val, "user")
         THEN [out |-> Raise("AttributeError"), cred |-> c]
    ELSE LET user == reqOut.val.user
             token == IF Has(user, "token") THEN user.token ELSE None
         IN [out |-> Ret(Truthy(token)), cred |-> LoginStore(c, token)]

Library(lib) ==
    [id |-> lib.id, name |-> lib.name, media_type |-> lib.mediaType,
     provider |-> lib.provider]

libraries(reqOut) ==
    IF reqOut.kind = "raise" THEN reqOut
    ELSE LET r == reqOut.val
             ls == IF Has(r, "libraries") THEN r.libraries ELSE <<>>
         IN Ret([k \in 1..Len(ls) |-> Library(ls[k])])

Audiobook(c, result) ==
    [type |-> "Audiobook", id |-> result.id, name |-> result.media.metadata.title,
     img |-> cover_url_for_item(c, result.id)]

Podcast(c, result) ==
    [type |-> "Podcast", id |-> result.id, name |-> result.media.metadata.title,
     img |-> cover_url_for_item(c, result.id)]

\* library() putting each item in front of the ones before it
RECURSIVE LibraryItemsReversed(_, _)
LibraryItemsReversed(c, results) ==
    IF results = <<>> THEN <<>>
    ELSE LET result == Head(results)
             book == IF result.mediaType = "book" THEN <<Audiobook(c, result)>> ELSE <<>>
             pod == IF result.mediaType = "podcast" THEN <<Podcast(c, result)>> ELSE <<>>
         IN LibraryItemsReversed(c, Tail(results)) \o book \o pod

RECURSIVE LibraryItems(_, _)
LibraryItems(c, results) ==
    IF results = <<>> THEN <<>>
    ELSE LET result == Head(results)
             book == IF result.mediaType = "book" THEN <<Audiobook(c, result)>> ELSE <<>>
             pod == IF result.mediaType = "podcast" THEN <<Podcast(c, result)>> ELSE <<>>
         IN book \o pod \o LibraryItems(c, Tail(results))

library(c, reqOut) ==
    IF reqOut.kind = "raise" THEN reqOut
    ELSE LET r == reqOut.val
         IN Ret(LibraryItems(c, IF Has(r, "results") THEN r.results ELSE <<>>))

Episode(c, episode) ==
    [id |-> episode.id, podcast_id |-> episode.libraryItemId,
     episode |-> episode.episode, title |-> episode.title,
     img |-> cover_url_for_item(c, episode.libraryItemId)]

get_podcast_episodes(c, reqOut) ==
    IF reqOut.kind = "raise" THEN reqOut
    ELSE LET r == reqOut.val IN
         IF ~Has(r, "media") THEN Raise("KeyError")
         ELSE IF ~Has(r.media, "episodes") THEN Raise("KeyError")
         ELSE LET es == r.media.episodes
              IN Ret([k \in 1..Len(es) |-> Episode(c, es[k])])

\* play_audiobook's and play_podcast's None
NoPlayable == [some |-> FALSE]

Playable(c, r) ==
    [some |-> TRUE, id |-> r.id, name |-> r.mediaMetadata.title,
     img |-> cover_url_for_item(c, r.id),
     url |-> authenticated_playable_url(c, r.audioTracks[1].contentUrl),
     mime_type |-> r.audioTracks[1].mimeType]

(* play_audiobook() and play_podcast(), after the await: the Playable is   *)
(* built field by field, in the order id, name, url, img, mime_type.       *)
Play(c, reqOut) ==
    IF reqOut.kind = "raise" THEN reqOut
    ELSE LET r == reqOut.val IN
         IF r = EmptyDict THEN Ret(NoPlayable)
         ELSE IF ~Has(r, "id") THEN Raise("KeyError")
         ELSE IF ~Has(r, "mediaMetadata") THEN Raise("KeyError")
         ELSE IF ~Has(r.mediaMetadata, "title") THEN Raise("KeyError")
         ELSE IF ~Has(r, "audioTracks") THEN Raise("KeyError")
         ELSE IF Len(r.audioTracks) = 0 THEN Raise("IndexError")
         ELSE IF ~Has(r.audioTracks[1], "contentUrl") THEN Raise("KeyError")
         ELSE IF ~Has(r.audioTracks[1], "mimeType") THEN Raise("KeyError")
         ELSE Ret(Playable(c, r))

play_audiobook(c, reqOut) == Play(c, reqOut)

play_podcast(c, reqOut) == Play(c, reqOut)

\* the request each accessor makes
Endpoint(fn, args) ==
    CASE fn = "login" -> [method |-> "POST", url |-> <<"login">>]
      [] fn = "libraries" -> [method |-> "GET", url |-> <<"/api/libraries">>]
      [] fn = "library" ->
            [method |-> "GET",
             url |-> <<"/api/libraries/">> \o args[1]
                        \o <<"/items?limit=0&sort=media.metadata.title&minified=1">>]
      [] fn = "get_podcast_episodes" ->
            [method |-> "GET",
             url |-> <<"/api/items/">> \o args[1] \o <<"?expanded=1&include=downloads">>]
      [] fn = "play_audiobook" ->
            [method |-> "POST", url |-> <<"api/items/">> \o args[1] \o <<"/play">>]
      [] OTHER ->
            [method |-> "POST",
             url |-> <<"api/items/">> \o args[1] \o <<"/play/">> \o args[2]]

ClientOutcome(fn, c, reqOut) ==
    CASE fn = "libraries" -> libraries(reqOut)
      [] fn = "library" -> library(c, reqOut)
      [] fn = "get_podcast_episodes" -> get_podcast_episodes(c, reqOut)
      [] fn = "play_audiobook" -> play_audiobook(c, reqOut)
      [] fn = "play_podcast" -> play_podcast(c, reqOut)
      [] OTHER -> reqOut

----------------------------------------------------------------------------
(* AudiobookshelfMediaSource *)

NoThumbnail == <<>>

BrowseMediaSource(identifier, media_class, media_content_type, title, can_play, can_expand, thumbnail) ==
    [identifier |-> identifier, media_class |-> media_class,
     media_content_type |-> media_content_type, title |-> title,
     can_play |-> can_play, can_expand |-> can_expand, thumbnail |-> thumbnail]

(* _async_build_libraries, up to the await: the accessor it calls, or none *)
BrowsePlan(identifier) ==
    LET parts == Partition(identifier, "/")
        category == parts.head
        abs_id == parts.tail
    IN CASE category = <<"library">> /\ abs_id # <<>> ->
                [fn |-> "library", args |-> <<abs_id>>]
         [] category = <<"item">> /\ abs_id # <<>> ->
                [fn |-> "none", args |-> <<>>]
         [] category = <<"podcast">> /\ abs_id # <<>> ->
                [fn |-> "get_podcast_episodes", args |-> <<abs_id>>]
         [] OTHER -> [fn |-> "libraries", args |-> <<>>]

LibraryItemNode(library_item) ==
    IF library_item.type = "Audiobook"
    THEN BrowseMediaSource(<<"audiobook", "/">> \o library_item.id, "track", "track",
                           library_item.name, TRUE, FALSE, library_item.img)
    ELSE BrowseMediaSource(<<"podcast", "/">> \o library_item.id, "directory",
                           "podcast", library_item.name, FALSE, TRUE, library_item.img)

EpisodeNode(episode) ==
    BrowseMediaSource(<<"podcast", "/">> \o episode.podcast_id \o <<":">> \o episode.id,
                      "podcast", "episode", episode.title, TRUE, FALSE, episode.img)

LibraryNode(lib) ==
    BrowseMediaSource(<<"library", "/">> \o lib.id, "directory", "music", lib.name,
                      FALSE, TRUE, NoThumbnail)

(* _async_build_libraries, after the await *)
BrowseChildren(fn, clientOut) ==
    IF clientOut.kind = "raise" THEN clientOut
    ELSE LET xs == clientOut.val IN
         CASE fn = "library" -> Ret([k \in 1..Len(xs) |-> LibraryItemNode(xs[k])])
           [] fn = "get_podcast_episodes" -> Ret([k \in 1..Len(xs) |-> EpisodeNode(xs[k])])
           [] OTHER -> Ret([k \in 1..Len(xs) |-> LibraryNode(xs[k])])

(* async_resolve_media, up to the await: the play call it makes, or none *)
ResolvePlan(identifier) ==
    LET parts == Partition(identifier, "/")
        category == parts.head
        abs_id == parts.tail
    IN CASE category = <<"audiobook">> -> [fn |-> "play_audiobook", args |-> <<abs_id>>]
         [] category = <<"podcast">> ->
                LET ids == Partition(abs_id, ":")
                IN [fn |-> "play_podcast", args |-> <<ids.head, ids.tail>>]
         [] OTHER -> [fn |-> "none", args |-> <<>>]

\* the exceptions async_resolve_media turns into Unresolvable
ResolveCatches(e) == IsAudiobookshelfError(e)

PlayMedia(playable) == [url |-> playable.url, mime_type |-> playable.mime_type]

(* async_resolve_media, after the await *)
ResolveResult(clientOut) ==
    IF clientOut.kind = "raise"
    THEN IF ResolveCatches(clientOut.exc) THEN Raise(Unresolvable) ELSE clientOut
    ELSE IF clientOut.val.some THEN Ret(PlayMedia(clientOut.val))
    ELSE Raise(Unresolvable)

----------------------------------------------------------------------------
(* State machine.  A call runs from its start to the `await` of the        *)
(* transport in one step, and from the transport's answer to its end in    *)
(* another; other callers' steps come in between.  The outcome of a call   *)
(* that ended stays in `last` until the caller takes it (Return).          *)

Idle == [op |-> "idle"]

Call(op, identifier, plan, headers) ==
    [op |-> op, ident |-> identifier, fn |-> plan.fn, args |-> plan.args,
     method |-> Endpoint(plan.fn, plan.args).method,
     url |-> <<HOST, "/">> \o Endpoint(plan.fn, plan.args).url,
     auth |-> headers.auth]

NoLast == [op |-> "none", sent |-> FALSE]

\* a call that ends without reaching the transport
Immediate(p, op, identifier, plan, out) ==
    [op |-> op, caller |-> p,
     call |-> [op |-> op, ident |-> identifier, fn |-> plan.fn, args |-> plan.args],
     before |-> cred, sent |-> FALSE, out |-> out]

\* a call that ends on the transport's answer
Completed(p, resp, reqOut, clientOut, out) ==
    [op |-> pending[p].op, caller |-> p, call |-> pending[p], before |-> cred,
     sent |-> TRUE, resp |-> resp, reqOut |-> reqOut, clientOut |-> clientOut,
     out |-> out]

\* a call either ends at once or suspends at the transport with its request
Started(p, op, identifier, plan, immediateOut) ==
    LET headers == RequestHeaders(cred) IN
    IF plan.fn = "none"
    THEN [pending |-> pending,
          last |-> Immediate(p, op, identifier, plan, immediateOut)]
    ELSE IF headers.go = "raise"
    THEN [pending |-> pending,
          last |-> Immediate(p, op, identifier, plan, Raise(AudiobookshelfError))]
    ELSE [pending |-> [pending EXCEPT ![p] = Call(op, identifier, plan, headers)],
          last |-> NoLast]

LoginPlan(c) ==
    IF LoginGuard(c) = "request" THEN [fn |-> "login", args |-> <<>>]
    ELSE [fn |-> "none", args |-> <<>>]

LoginStart(p) ==
    LET s == Started(p, "login", <<>>, LoginPlan(cred), Ret(LoginGuard(cred) = "true"))
    IN /\ last.op = "none"
       /\ pending[p].op = "idle"
       /\ cred' = cred
       /\ pending' = s.pending
       /\ last' = s.last

LoginFinish(p, responses) ==
    /\ last.op = "none"
    /\ pending[p].op = "login"
    /\ \E resp \in responses :
          LET reqOut == RequestOutcome(resp)
              res == LoginResult(cred, reqOut)
          IN /\ cred' = res.cred
             /\ pending' = [pending EXCEPT ![p] = Idle]
             /\ last' = Completed(p, resp, reqOut, reqOut, res.out)

BrowseStart(p, identifier) ==
    LET s == Started(p, "browse", identifier, BrowsePlan(identifier), Ret(<<>>))
    IN /\ last.op = "none"
       /\ pending[p].op = "idle"
       /\ cred' = cred
       /\ pending' = s.pending
       /\ last' = s.last

BrowseFinish(p, responses) ==
    /\ last.op = "none"
    /\ pending[p].op = "browse"
    /\ \E resp \in responses :
          LET reqOut == RequestOutcome(resp)
              clientOut == ClientOutcome(pending[p].fn, cred, reqOut)
          IN /\ cred' = cred
             /\ pending' = [pending EXCEPT ![p] = Idle]
             /\ last' = Completed(p, resp, reqOut, clientOut,
                                  BrowseChildren(pending[p].fn, clientOut))

ResolveStart(p, identifier) ==
    LET s == Started(p, "resolve", identifier, ResolvePlan(identifier),
                     Raise(Unresolvable))
    IN /\ last.op = "none"
       /\ pending[p].op = "idle"
       /\ cred' = cred
       /\ pending' = s.pending
       /\ last' = s.last

ResolveFinish(p, responses) ==
    /\ last.op = "none"
    /\ pending[p].op = "resolve"
    /\ \E resp \in responses :
          LET reqOut == RequestOutcome(resp)
              clientOut == ClientOutcome(pending[p].fn, cred, reqOut)
          IN /\ cred' = cred
             /\ pending' = [pending EXCEPT ![p] = Idle]
             /\ last' = Completed(p, resp, reqOut, clientOut,
                                  ResolveResult(clientOut))

\* the caller takes the outcome of the call that ended
Return ==
    /\ last.op # "none"
    /\ last' = NoLast
    /\ UNCHANGED <<cred, pending>>

Credentials == [username : Usernames, password : Passwords, token : InitTokens]

Callers == {"host"}

Tasks == {"task1", "task2"}

InitFor(callers) ==
    /\ cred \in Credentials
    /\ pending = [p \in callers |-> Idle]
    /\ last = NoLast

(* One host task at a time, over every identifier and every answer *)
Init == InitFor(Callers)

Next ==
    \/ \E p \in Callers : LoginStart(p)
    \/ \E p \in Callers, i \in Identifiers : BrowseStart(p, i)
    \/ \E p \in Callers, i \in Identifiers : ResolveStart(p, i)
    \/ \E p \in Callers : LoginFinish(p, ResponsesFor(pending[p].fn))
    \/ \E p \in Callers : BrowseFinish(p, ResponsesFor(pending[p].fn))
    \/ \E p \in Callers : ResolveFinish(p, ResponsesFor(pending[p].fn))
    \/ Return

Spec == Init /\ [][Next]_vars

(* Two host tasks sharing the client, their calls interleaved at the       *)
(* awaits, over a few identifiers and every answer                         *)
ConcBrowse == {<<>>, <<"item", "/", "a">>}

ConcResolve == {<<"audiobook", "/", "a">>, <<"bogus", "/", "a">>}

InitConc == InitFor(Tasks)

NextConc ==
    \/ \E p \in Tasks : LoginStart(p)
    \/ \E p \in Tasks, i \in ConcBrowse : BrowseStart(p, i)
    \/ \E p \in Tasks, i \in ConcResolve : ResolveStart(p, i)
    \/ \E p \in Tasks : LoginFinish(p, ResponsesFor(pending[p].fn))
    \/ \E p \in Tasks : BrowseFinish(p, ResponsesFor(pending[p].fn))
    \/ \E p \in Tasks : ResolveFinish(p, ResponsesFor(pending[p].fn))
    \/ Return

SpecConc == InitConc /\ [][NextConc]_vars

----------------------------------------------------------------------------
(* Properties *)

NoTokenHeader == <<"Bearer ", Str(None)>>

(* C1: every HTTP call request() issues for an accessor carries            *)
(* "Authorization: Bearer <token>" with a token that is present on the     *)
(* Credential: without a token request() first logs in, and gives up with  *)
(* AudiobookshelfError, sending nothing, when that fails.  (login's own    *)
(* POST, which is what obtains the token, is left aside.)                  *)
C1_RequestCarriesToken ==
    \A p \in DOMAIN pending :
        (pending[p].op # "idle" /\ pending[p].fn # "login")
            => pending[p].auth # NoTokenHeader

(* C2: the outcome of request() is fixed by the transport's answer: a 2xx  *)
(* status returns the parsed body, every other status raises               *)
(* AudiobookshelfFailedResponseError, a timeout or transport failure       *)
(* raises AudiobookshelfConnectionError.                                   *)
C2_OutcomeFixedByTransport ==
    last.sent =>
        /\ (last.resp.kind = "status" /\ last.resp.status >= 200
                /\ last.resp.status < 300)
              => (last.reqOut.kind = "return" /\ last.reqOut.val = last.resp.body)
        /\ (last.resp.kind = "status"
                /\ ~(last.resp.status >= 200 /\ last.resp.status < 300))
              => (last.reqOut.kind = "raise"
                    /\ last.reqOut.exc = AudiobookshelfFailedResponseError)
        /\ last.resp.kind \in {"timeout", "client_error"}
              => (last.reqOut.kind = "raise"
                    /\ last.reqOut.exc = AudiobookshelfConnectionError)

(* C3: async_resolve_media returns the Playable's (url, mime_type) or      *)
(* raises Unresolvable; no other exception leaves it.                      *)
C3_ResolveOnlyUnresolvable ==
    last.op = "resolve" =>
        \/ last.out.kind = "return"
        \/ (last.out.kind = "raise" /\ last.out.exc = Unresolvable)

C3_UnknownCategoryUnresolvable ==
    (last.op = "resolve" /\ last.call.ident = <<"bogus", "/", "a">>)
        => (last.out.kind = "raise" /\ last.out.exc = Unresolvable)

\* a non-empty play body that lacks an expected key or has no audio track
MalformedPlayBody(r) ==
    /\ r # EmptyDict
    /\ \/ ~Has(r, "id")
       \/ ~Has(r, "mediaMetadata")
       \/ ~Has(r.mediaMetadata, "title")
       \/ ~Has(r, "audioTracks")
       \/ Len(r.audioTracks) = 0
       \/ ~Has(r.audioTracks[1], "contentUrl")
       \/ ~Has(r.audioTracks[1], "mimeType")

(* C4: play_audiobook and play_podcast raise AudiobookshelfParseError on a *)
(* 2xx response whose non-empty body lacks an expected key or has an empty *)
(* audioTracks list.                                                       *)
C4_MalformedPlayIsParseError ==
    (/\ last.sent
     /\ last.call.fn \in {"play_audiobook", "play_podcast"}
     /\ last.reqOut.kind = "return"
     /\ MalformedPlayBody(last.reqOut.val))
        => (last.clientOut.kind = "raise"
              /\ last.clientOut.exc = AudiobookshelfParseError)

(* C5: login() with no token and a username and password POSTs once to    *)
(* the login endpoint and returns true iff the body carries a non-empty    *)
(* token at user.token, which it then stores; when the path is absent or   *)
(* the token empty it returns false, raises nothing and leaves the token   *)
(* as it was.                                                              *)
C5_LoginTokenPath ==
    (last.op = "login" /\ last.sent /\ last.reqOut.kind = "return") =>
        LET body == last.reqOut.val
            carries == /\ Has(body, "user")
                       /\ Has(body.user, "token")
                       /\ body.user.token # ""
        IN /\ last.call.method = "POST"
           /\ last.call.url = <<HOST, "/", "login">>
           /\ last.out.kind = "return"
           /\ last.out.val = carries
           /\ carries => cred.token = body.user.token
           /\ ~carries => cred.token = last.before.token

C7_ValidIffTokenOrBoth ==
    ~is_invalid(cred) <=>
        (Truthy(cred.token) \/ (Truthy(cred.username) /\ Truthy(cred.password)))

(* C8: the identifier of every playable node browse produces resolves to   *)
(* the play call with the ids the node was built from: audiobook/<id> to   *)
(* play_audiobook(id), podcast/<podcast_id>:<episode_id> to                *)
(* play_podcast(podcast_id, episode_id).                                   *)
C8_IdentifiersRoundTrip ==
    (last.op = "browse" /\ last.sent /\ last.out.kind = "return") =>
        LET built == last.clientOut.val
            nodes == last.out.val
        IN \A k \in 1..Len(nodes) :
              nodes[k].can_play =>
                  IF last.call.fn = "library"
                  THEN ResolvePlan(nodes[k].identifier)
                          = [fn |-> "play_audiobook", args |-> <<built[k].id>>]
                  ELSE ResolvePlan(nodes[k].identifier)
                          = [fn |-> "play_podcast",
                             args |-> <<built[k].podcast_id, built[k].id>>]

IsBookOrPodcast(result) == result.mediaType \in {"book", "podcast"}

(* C9: browse follows the table: no identifier lists the libraries as      *)
(* library/<id>, expandable and not playable; library/<id> lists the       *)
(* library's books and podcasts in server order as audiobook/<id>          *)
(* (playable) or podcast/<id> (expandable); podcast/<id> lists the         *)
(* episodes as podcast/<podcast_id>:<episode_id> (playable); item/<id>     *)
(* lists nothing.  Every child is exactly one of playable and expandable.  *)
C9_BrowseTable ==
    (last.op = "browse" /\ last.out.kind = "return") =>
        LET parts == Partition(last.call.ident, "/")
            nodes == last.out.val
            body == last.reqOut.val
        IN /\ \A k \in 1..Len(nodes) : nodes[k].can_play # nodes[k].can_expand
           /\ last.call.ident = <<>> =>
                 LET libs == IF Has(body, "libraries") THEN body.libraries ELSE <<>>
                 IN /\ last.sent
                    /\ last.call.url = <<HOST, "/", "/api/libraries">>
                    /\ Len(nodes) = Len(libs)
                    /\ \A k \in 1..Len(nodes) :
                          /\ nodes[k].identifier = <<"library", "/">> \o libs[k].id
                          /\ nodes[k].can_expand
                          /\ ~nodes[k].can_play
           /\ (parts.head = <<"library">> /\ parts.tail # <<>>) =>
                 LET kept == SelectSeq(IF Has(body, "results") THEN body.results
                                       ELSE <<>>, IsBookOrPodcast)
                 IN /\ last.sent
                    /\ last.call.args = <<parts.tail>>
                    /\ Len(nodes) = Len(kept)
                    /\ \A k \in 1..Len(nodes) :
                          IF kept[k].mediaType = "book"
                          THEN /\ nodes[k].identifier = <<"audiobook", "/">> \o kept[k].id
                               /\ nodes[k].can_play
                               /\ ~nodes[k].can_expand
                          ELSE /\ nodes[k].identifier = <<"podcast", "/">> \o kept[k].id
                               /\ nodes[k].can_expand
                               /\ ~nodes[k].can_play
           /\ (parts.head = <<"podcast">> /\ parts.tail # <<>>) =>
                 LET eps == body.media.episodes
                 IN /\ last.sent
                    /\ last.call.args = <<parts.tail>>
                    /\ Len(nodes) = Len(eps)
                    /\ \A k \in 1..Len(nodes) :
                          /\ nodes[k].identifier =
                                <<"podcast", "/">> \o eps[k].libraryItemId \o <<":">>
                                    \o eps[k].id
                          /\ nodes[k].can_play
                          /\ ~nodes[k].can_expand
           /\ (parts.head = <<"item">> /\ parts.tail # <<>>) =>
                 (~last.sent /\ nodes = <<>>)

C9_Witness ==
    /\ last.op = "browse"
    /\ last.call.ident = <<"library", "/", "a">>
    /\ last.out.kind = "return"
    /\ last.resp.kind = "status"
    /\ last.resp.status = 200
    /\ Has(last.resp.body, "results")
    /\ Len(last.resp.body.results) = 2
    /\ last.resp.body.results[1].mediaType = "podcast"
    /\ last.resp.body.results[2].mediaType = "book"
    /\ Len(last.out.val) = 2
    /\ last.out.val[1].can_expand
    /\ last.out.val[2].can_play

(* C10: under any interleaving of login, browse and resolve calls the      *)
(* username and password never change, the token changes only in a step    *)
(* that ends a login() call, and a non-empty token is never replaced by an *)
(* absent or empty one.                                                    *)
C10_OnlyLoginWritesToken ==
    [][/\ cred'.username = cred.username
       /\ cred'.password = cred.password
       /\ cred'.token # cred.token =>
             \E p \in DOMAIN pending :
                 pending[p].op = "login" /\ pending'[p].op = "idle"
       /\ Truthy(cred.token) => Truthy(cred'.token)]_vars

C10_Witness ==
    /\ last.op = "login"
    /\ last.sent
    /\ last.out.kind = "return"
    /\ last.out.val = TRUE
    /\ Truthy(last.before.token)
    /\ cred.token # last.before.token
    /\ \E p \in DOMAIN pending : pending[p].op \in {"browse", "resolve"}

====
